---- MODULE Spec2Model ----
(***************************************************************************)
(* Product catalogue service (FastAPI handlers of main.py over the         *)
(* SQLAlchemy repository of crud.py / models.py and the uploads            *)
(* directory).                                                             *)
(*                                                                         *)
(* State: the products table, the set of files of the uploads directory,   *)
(* the uuid4 generator, the attributes the ORM class models.Product maps,  *)
(* and - as history - the last request with its response and the state it  *)
(* started from.                                                           *)
(*                                                                         *)
(* Python raises where TLA+ would be silent, and which exception a         *)
(* statement raises decides the HTTP status.  Every handler is therefore   *)
(* written as the sequence of its statements, each either raising a named  *)
(* exception or continuing, and the handler's except clauses map the       *)
(* exception to the status.                                                *)
(***************************************************************************)
EXTENDS Integers, Sequences, FiniteSets, TLC

VARIABLES cols, table, files, uuidCtr, resp, pre, reqs, rowWriter

vars == <<cols, table, files, uuidCtr, resp, pre, reqs, rowWriter>>

(***************************************************************************)
(* Bounds of the model.                                                    *)
(***************************************************************************)
\* Primary keys the table may use.
MaxId == 1
\* Number of uuid4() file names the generator hands out.
MaxFiles == 2

Ids == 1..MaxId

(***************************************************************************)
(* Values.                                                                 *)
(***************************************************************************)
\* Python's None where a string is expected (description, content type).
None == "None"
\* Python's None in the image column / image_url (falsy, as is "").
NoImage == <<>>
\* An absent row: what .first() returns for it.
NoRow == [name |-> None, description |-> None, price |-> 0, image |-> NoImage, live |-> FALSE]

\* main.py:98 and main.py:166: 5 * 1024 * 1024
MaxImageSize == 5 * 1024 * 1024

\* Columns of the mapped class models.Product.
ProductColumns == {"id", "name", "description", "price"}

\* Fields of the pydantic schema schemas.Product (ProductBase plus id).
SchemaFields == {"id", "name", "description", "price", "image"}

\* hasattr(models.Product, a): the declarative constructor's test, and what
\* reading instance.a needs.
HasAttr(a) == a \in cols

(***************************************************************************)
(* Request inputs.                                                         *)
(***************************************************************************)
\* Form fields name, description (Form(None): may be omitted), price.
Payloads ==
  { [name |-> "Chair", description |-> None,  price |-> 49],
    [name |-> "Desk",  description |-> "Oak", price |-> 120] }

\* Content types as the token sequences startswith() looks at.
ImagePng  == <<"image", "/", "png">>
TextPlain == <<"text", "/", "plain">>
ImageOnly == <<"image">>

\* image: Optional[UploadFile] = File(None).  present = FALSE is image None.
NoUpload == [present |-> FALSE, filename |-> "", content_type |-> <<>>, size |-> 0]

Upload(fn, ct, sz) == [present |-> TRUE, filename |-> fn, content_type |-> ct, size |-> sz]

Uploads ==
  { NoUpload,
    Upload("a.png", ImagePng, 1024),
    Upload("a.png", ImagePng, 0),                 \* size not declared
    Upload("a.png", ImagePng, MaxImageSize),
    Upload("a.png", ImagePng, MaxImageSize + 1),
    Upload("a.txt", TextPlain, 1024),
    Upload("a",     ImageOnly, 1024),
    Upload("",      TextPlain, 1024),             \* empty file field of a form
    Upload("a.png", <<>>, 1024) }                 \* part without Content-Type

\* The I/O step of the request that fails, if the request gets to it.
\*   save_open:  open(file_path, "wb") raises, no file is created
\*   save_copy:  copyfileobj raises after open created the file
\*   remove:     os.remove raises
\*   commit:     db.commit raises
Fails == {"none", "save_open", "save_copy", "remove", "commit"}

(***************************************************************************)
(* Pure helpers.                                                           *)
(***************************************************************************)
\* content_type.startswith('image/')
StartsWithImage(ct) == Len(ct) >= 2 /\ ct[1] = "image" /\ ct[2] = "/"

\* `image and image.filename`
HasFile(up) == up.present /\ up.filename # ""

\* `image.size and image.size > 5 * 1024 * 1024`
TooBig(up) == up.size # 0 /\ up.size > MaxImageSize

\* `description or ""`
OrEmpty(d) == IF d = None \/ d = "" THEN "" ELSE d

\* f"/uploads/{unique_filename}"
UrlOf(n) == <<"/uploads/", n>>

\* existing_product.image.replace("/uploads/", "") joined to UPLOAD_DIR
PathOf(url) == url[2]

\* `if existing_product.image:`
Truthy(img) == img # NoImage

(***************************************************************************)
(* Statements.  A statement takes the stores st = [table, files, uuidCtr]  *)
(* and yields the stores after it and the exception it raised ("ok": none).*)
(***************************************************************************)
Stores == [table |-> table, files |-> files, uuidCtr |-> uuidCtr]

Max(S) == CHOOSE x \in S : \A y \in S : y <= x

LiveIds(tbl) == {i \in Ids : tbl[i].live}

\* INTEGER PRIMARY KEY of the default SQLite database: the largest id in
\* the table plus one.
NewId(tbl) == IF LiveIds(tbl) = {} THEN 1 ELSE Max(LiveIds(tbl)) + 1

\* crud.get_product: .filter(id == product_id).first()
GetProduct(tbl, id) == IF id \in Ids /\ tbl[id].live THEN tbl[id] ELSE NoRow

\* save_upload_file, called with a non-empty filename: a fresh uuid4 name,
\* open() creates the file, copyfileobj fills it.
SaveUploadFile(st, fail) ==
  LET n == st.uuidCtr + 1
      named == [st EXCEPT !.uuidCtr = n]
  IN  IF fail = "save_open"
      THEN [st |-> named, exc |-> "OSError", url |-> NoImage]
      ELSE IF fail = "save_copy"
      THEN [st |-> [named EXCEPT !.files = @ \cup {n}], exc |-> "OSError", url |-> NoImage]
      ELSE [st |-> [named EXCEPT !.files = @ \cup {n}], exc |-> "ok", url |-> UrlOf(n)]

\* os.path.exists on the file an image url names.
PathExists(st, url) == PathOf(url) \in st.files

\* os.remove on the file an image url names: raises when the file is not
\* there (or cannot be removed).
OsRemove(st, url, fail) ==
  IF fail = "remove" \/ ~PathExists(st, url)
  THEN [st |-> st, exc |-> "OSError"]
  ELSE [st |-> [st EXCEPT !.files = @ \ {PathOf(url)}], exc |-> "ok"]

\* `if os.path.exists(p): os.remove(p)`, nothing running in between.
RemoveIfExists(st, url, fail) ==
  IF PathExists(st, url) THEN OsRemove(st, url, fail) ELSE [st |-> st, exc |-> "ok"]

\* Faulty variant of StoredImage: the assigned image never reaches the table.
StoredImageNever(old, url) == old

\* The value the image column ends with when image_url is assigned to the
\* instance: only a mapped column is flushed to the table.
StoredImage(old, url) == IF HasAttr("image") THEN url ELSE old

\* crud.create_product: models.Product(**kwargs) accepts only attributes of
\* the class, then add / commit / refresh.
CrudCreateProduct(st, data, url, fail) ==
  IF ~(\A k \in {"name", "description", "price", "image"} : HasAttr(k))
  THEN [st |-> st, exc |-> "TypeError", id |-> 0]
  ELSE IF fail = "commit"
  THEN [st |-> st, exc |-> "DBError", id |-> 0]
  ELSE LET id == NewId(st.table)
           row == [name |-> data.name, description |-> data.description,
                   price |-> data.price, image |-> url, live |-> TRUE]
       IN  [st |-> [st EXCEPT !.table = [@ EXCEPT ![id] = row]], exc |-> "ok", id |-> id]

\* The UPDATE a flush issues: the columns whose assigned value differs from
\* the value the session loaded.
FlushRow(cur, loaded, new) ==
  [name        |-> IF new.name = loaded.name THEN cur.name ELSE new.name,
   description |-> IF new.description = loaded.description THEN cur.description ELSE new.description,
   price       |-> IF new.price = loaded.price THEN cur.price ELSE new.price,
   image       |-> IF new.image = loaded.image THEN cur.image ELSE StoredImage(cur.image, new.image),
   live        |-> cur.live]

\* crud.update_product: the session's instance (loaded by the handler's
\* get_product) gets the four fields, then commit / refresh.
CrudUpdateProduct(st, id, data, url, loaded, fail) ==
  IF ~GetProduct(st.table, id).live
  THEN [st |-> st, exc |-> "ok", found |-> FALSE]
  ELSE IF fail = "commit"
  THEN [st |-> st, exc |-> "DBError", found |-> TRUE]
  ELSE LET new == [name |-> data.name, description |-> data.description,
                   price |-> data.price, image |-> url, live |-> TRUE]
       IN  [st |-> [st EXCEPT !.table = [@ EXCEPT ![id] = FlushRow(@, loaded, new)]],
            exc |-> "ok", found |-> TRUE]

\* crud.delete_product: query.delete(), commit, success > 0.
CrudDeleteProduct(st, id, fail) ==
  IF fail = "commit"
  THEN [st |-> st, exc |-> "DBError", success |-> FALSE]
  ELSE IF GetProduct(st.table, id).live
  THEN [st |-> [st EXCEPT !.table = [@ EXCEPT ![id] = NoRow]], exc |-> "ok", success |-> TRUE]
  ELSE [st |-> st, exc |-> "ok", success |-> FALSE]

\* Faulty variant of ValidateImage: the content-type check left out.
ValidateImageSizeOnly(up) ==
  IF up.content_type = <<>> THEN "AttributeError"
  ELSE IF TooBig(up) THEN "HTTP400"
  ELSE "ok"

\* The image checks both handlers make before touching a file.
ValidateImage(up) ==
  IF up.content_type = <<>> THEN "AttributeError"      \* None.startswith
  ELSE IF ~StartsWithImage(up.content_type) THEN "HTTP400"
  ELSE IF TooBig(up) THEN "HTTP400"
  ELSE "ok"

\* schemas.ProductCreate(name, description or "", price, image_url)
ProductCreate(data) == [data EXCEPT !.description = OrEmpty(@)]

(***************************************************************************)
(* except clauses: exception -> HTTP status.                               *)
(***************************************************************************)
HttpStatus(exc) == IF exc = "HTTP400" THEN 400 ELSE IF exc = "HTTP404" THEN 404 ELSE 500

\* create_product has `except Exception` only: an HTTPException raised in
\* the try block is an Exception too.
CreateExcept(exc) == 500

\* update_product, delete_product, read_product: `except HTTPException:
\* raise`, then `except Exception` -> 500.
ReraiseExcept(exc) == HttpStatus(exc)

\* What a request leaves: the stores, the HTTP status, the id it names and the
\* exception that ended it.
Out(st, status, id, exc) == [st |-> st, status |-> status, id |-> id, exc |-> exc]

(***************************************************************************)
(* Handlers.                                                               *)
(***************************************************************************)
\* POST /products/
CreateHandler(st, data, up, fail) ==
  LET v == IF HasFile(up) THEN ValidateImage(up) ELSE "ok"
  IN  IF v # "ok" THEN Out(st, CreateExcept(v), 0, v)
      ELSE LET s == IF HasFile(up) THEN SaveUploadFile(st, fail)
                    ELSE [st |-> st, exc |-> "ok", url |-> NoImage]
           IN  IF s.exc # "ok" THEN Out(s.st, CreateExcept(s.exc), 0, s.exc)
               ELSE LET c == CrudCreateProduct(s.st, ProductCreate(data), s.url, fail)
                    IN  IF c.exc # "ok" THEN Out(c.st, CreateExcept(c.exc), 0, c.exc)
                        ELSE Out(c.st, 200, c.id, "ok")

\* Faulty variant of UpdateImage: the old file is left in the uploads directory.
UpdateImageKeepOld(st, existing, up, fail) ==
  LET v == ValidateImage(up)
  IN  IF v # "ok" THEN [st |-> st, exc |-> v, url |-> NoImage]
      ELSE SaveUploadFile(st, fail)

\* The part of update_product between the existence check and the row
\* update: validation, removal of the old file, saving of the new one.
UpdateImage(st, existing, up, fail) ==
  LET v == ValidateImage(up)
  IN  IF v # "ok" THEN [st |-> st, exc |-> v, url |-> NoImage]
      ELSE LET r == IF Truthy(existing.image)
                    THEN RemoveIfExists(st, existing.image, fail)
                    ELSE [st |-> st, exc |-> "ok"]
           IN  IF r.exc # "ok" THEN [st |-> r.st, exc |-> r.exc, url |-> NoImage]
               ELSE SaveUploadFile(r.st, fail)

\* Faulty variant of DefaultImageUrl: image_url starts as None, as in create_product.
DefaultImageUrlNone(existing) == NoImage

\* `image_url = existing_product.image`: the image kept when none is sent.
DefaultImageUrl(existing) == existing.image

\* Faulty variant of UpdateHandler: the image is handled before the row is looked for.
UpdateHandlerLateCheck(st, id, data, up, fail) ==
  LET existing == GetProduct(st.table, id)
      s == IF HasFile(up) THEN UpdateImage(st, existing, up, fail)
           ELSE [st |-> st, exc |-> "ok", url |-> DefaultImageUrl(existing)]
  IN  IF s.exc # "ok" THEN Out(s.st, ReraiseExcept(s.exc), id, s.exc)
      ELSE IF ~existing.live THEN Out(s.st, ReraiseExcept("HTTP404"), id, "HTTP404")
      ELSE IF ~HasAttr("image") THEN Out(s.st, ReraiseExcept("AttributeError"), id, "AttributeError")
      ELSE LET u == CrudUpdateProduct(s.st, id, ProductCreate(data), s.url, existing, fail)
           IN  IF u.exc # "ok" THEN Out(u.st, ReraiseExcept(u.exc), id, u.exc)
               ELSE Out(u.st, 200, id, "ok")

\* PUT /products/{product_id}
UpdateHandler(st, id, data, up, fail) ==
  LET existing == GetProduct(st.table, id)
  IN  IF ~existing.live THEN Out(st, ReraiseExcept("HTTP404"), id, "HTTP404")
      ELSE IF ~HasAttr("image") THEN Out(st, ReraiseExcept("AttributeError"), id, "AttributeError")
      ELSE LET s == IF HasFile(up) THEN UpdateImage(st, existing, up, fail)
                    ELSE [st |-> st, exc |-> "ok", url |-> DefaultImageUrl(existing)]
           IN  IF s.exc # "ok" THEN Out(s.st, ReraiseExcept(s.exc), id, s.exc)
               ELSE LET u == CrudUpdateProduct(s.st, id, ProductCreate(data), s.url, existing, fail)
                    IN  IF u.exc # "ok" THEN Out(u.st, ReraiseExcept(u.exc), id, u.exc)
                        ELSE IF ~u.found THEN Out(u.st, ReraiseExcept("HTTP404"), id, "HTTP404")
                        ELSE Out(u.st, 200, id, "ok")

\* DELETE /products/{product_id}
DeleteHandler(st, id, fail) ==
  LET existing == GetProduct(st.table, id)
  IN  IF existing.live /\ ~HasAttr("image") THEN Out(st, ReraiseExcept("AttributeError"), id, "AttributeError")
      ELSE LET r == IF existing.live /\ Truthy(existing.image)
                    THEN RemoveIfExists(st, existing.image, fail)
                    ELSE [st |-> st, exc |-> "ok"]
           IN  IF r.exc # "ok" THEN Out(r.st, ReraiseExcept(r.exc), id, r.exc)
               ELSE LET d == CrudDeleteProduct(r.st, id, fail)
                    IN  IF d.exc # "ok" THEN Out(d.st, ReraiseExcept(d.exc), id, d.exc)
                        ELSE IF ~d.success THEN Out(d.st, ReraiseExcept("HTTP404"), id, "HTTP404")
                        ELSE Out(d.st, 200, id, "ok")

\* GET /products/{product_id}
ReadHandler(st, id) ==
  IF GetProduct(st.table, id).live THEN Out(st, 200, id, "ok") ELSE Out(st, ReraiseExcept("HTTP404"), id, "HTTP404")


(***************************************************************************)
(* Requests served one at a time.                                          *)
(***************************************************************************)
EmptyTable == [i \in Ids |-> NoRow]

\* A row as crud.create_product writes it.
RowOf(data, url) ==
  [name |-> data.name, description |-> OrEmpty(data.description), price |-> data.price,
   image |-> url, live |-> TRUE]

Requests == {1, 2}

IdleReq == [pc |-> "idle", id |-> 0, data |-> CHOOSE d \in Payloads : TRUE,
            loaded |-> NoRow, url |-> NoImage, status |-> 0]

NoResp == [op |-> "none", id |-> 0, status |-> 0, data |-> CHOOSE d \in Payloads : TRUE,
           upload |-> NoUpload, fail |-> "none"]

\* The runs the model follows: the uuid generator within its bound, and a
\* failing I/O step only where the request gets to that step.
Admit(o, fail) ==
  /\ o.st.uuidCtr <= MaxFiles
  /\ fail = "none" \/ o.exc \in {"OSError", "DBError"}

Serve(op, o, data, up, fail) ==
  /\ table' = o.st.table
  /\ files' = o.st.files
  /\ uuidCtr' = o.st.uuidCtr
  /\ resp' = [op |-> op, id |-> o.id, status |-> o.status, data |-> data,
              upload |-> up, fail |-> fail]
  /\ pre' = Stores
  /\ UNCHANGED <<cols, reqs, rowWriter>>

CreateProduct ==
  \E data \in Payloads, up \in Uploads, fail \in Fails :
    LET o == CreateHandler(Stores, data, up, fail)
    IN  /\ NewId(table) \in Ids
        /\ Admit(o, fail)
        /\ Serve("create", o, data, up, fail)

UpdateProduct ==
  \E id \in Ids, data \in Payloads, up \in Uploads, fail \in Fails :
    LET o == UpdateHandler(Stores, id, data, up, fail)
    IN  /\ Admit(o, fail)
        /\ Serve("update", o, data, up, fail)

DeleteProduct ==
  \E id \in Ids, fail \in Fails :
    LET o == DeleteHandler(Stores, id, fail)
    IN  /\ Admit(o, fail)
        /\ Serve("delete", o, NoResp.data, NoUpload, fail)

ReadProduct ==
  \E id \in Ids :
    LET o == ReadHandler(Stores, id)
    IN  /\ Admit(o, "none")
        /\ Serve("read", o, NoResp.data, NoUpload, "none")

\* The tables the service may start on: create_all() creates a missing
\* products table and leaves an existing one, rows included, as it is.
InitTables ==
  {EmptyTable} \cup
  {[EmptyTable EXCEPT ![1] = RowOf(d, NoImage)] : d \in Payloads}

InitCommon ==
  /\ files = {}
  /\ uuidCtr = 0
  /\ resp = NoResp
  /\ pre = Stores
  /\ reqs = [r \in Requests |-> IdleReq]
  /\ rowWriter = 0

\* The service as the source has it: models.Product maps four columns.
Init ==
  /\ cols = ProductColumns
  /\ table \in InitTables
  /\ InitCommon

Next == CreateProduct \/ UpdateProduct \/ DeleteProduct \/ ReadProduct

Spec == Init /\ [][Next]_vars

\* The service with the image column the schema, crud.py and the handlers
\* read and write: the handlers' image paths, which the four-column class
\* never lets a request enter.
InitImg ==
  /\ cols = SchemaFields
  /\ table = EmptyTable
  /\ InitCommon

SpecImg == InitImg /\ [][Next]_vars

\* Both: what holds here holds of the service as it is and of the service
\* with the image column mapped.
InitAll == Init \/ InitImg

SpecAll == InitAll /\ [][Next]_vars


(***************************************************************************)
(* Two update requests on one id, statement by statement.  Both bring a    *)
(* valid image.  Every interleaving of their statements is followed: that  *)
(* covers a deployment with several workers, and the single event loop of  *)
(* uvicorn.run, which runs each handler body without a switch, as well.    *)
(***************************************************************************)
\* The file of the image the product has when the requests arrive: a name
\* uuid4 handed out before.
OldFile == 0

SetReq(r, rec) == reqs' = [reqs EXCEPT ![r] = rec]

Apply(st) ==
  /\ table' = st.table
  /\ files' = st.files
  /\ uuidCtr' = st.uuidCtr

\* The request arrives: FastAPI has parsed the form and calls the handler.
UpdBegin(r) ==
  \E id \in LiveIds(table), data \in Payloads :
    /\ reqs[r].pc = "idle"
    /\ \A q \in Requests : reqs[q].pc # "idle" => reqs[q].id = id
    /\ SetReq(r, [reqs[r] EXCEPT !.pc = "get", !.id = id, !.data = data])
    /\ UNCHANGED <<cols, table, files, uuidCtr, resp, pre, rowWriter>>

\* existing_product = crud.get_product(...); image_url = existing_product.image
UpdGet(r) ==
  /\ reqs[r].pc = "get"
  /\ LET existing == GetProduct(table, reqs[r].id)
     IN  IF ~existing.live
         THEN SetReq(r, [reqs[r] EXCEPT !.pc = "done", !.status = ReraiseExcept("HTTP404")])
         ELSE IF ~HasAttr("image")
         THEN SetReq(r, [reqs[r] EXCEPT !.pc = "done", !.status = ReraiseExcept("AttributeError")])
         ELSE SetReq(r, [reqs[r] EXCEPT !.loaded = existing, !.url = DefaultImageUrl(existing),
                                        !.pc = IF Truthy(existing.image) THEN "exists" ELSE "save"])
  /\ UNCHANGED <<cols, table, files, uuidCtr, resp, pre, rowWriter>>

\* if os.path.exists(old_file_path):
UpdExists(r) ==
  /\ reqs[r].pc = "exists"
  /\ SetReq(r, [reqs[r] EXCEPT !.pc = IF PathExists(Stores, reqs[r].loaded.image)
                                      THEN "remove" ELSE "save"])
  /\ UNCHANGED <<cols, table, files, uuidCtr, resp, pre, rowWriter>>

\* os.remove(old_file_path)
UpdRemove(r) ==
  /\ reqs[r].pc = "remove"
  /\ LET o == OsRemove(Stores, reqs[r].loaded.image, "none")
     IN  /\ Apply(o.st)
         /\ IF o.exc = "ok"
            THEN SetReq(r, [reqs[r] EXCEPT !.pc = "save"])
            ELSE SetReq(r, [reqs[r] EXCEPT !.pc = "done", !.status = ReraiseExcept(o.exc)])
  /\ UNCHANGED <<cols, resp, pre, rowWriter>>

\* image_url = await save_upload_file(image)
UpdSave(r) ==
  /\ reqs[r].pc = "save"
  /\ LET o == SaveUploadFile(Stores, "none")
     IN  /\ o.st.uuidCtr <= MaxFiles
         /\ Apply(o.st)
         /\ SetReq(r, [reqs[r] EXCEPT !.pc = "write", !.url = o.url])
  /\ UNCHANGED <<cols, resp, pre, rowWriter>>

\* updated_product = crud.update_product(...); return updated_product
UpdWrite(r) ==
  /\ reqs[r].pc = "write"
  /\ LET o == CrudUpdateProduct(Stores, reqs[r].id, ProductCreate(reqs[r].data),
                                reqs[r].url, reqs[r].loaded, "none")
     IN  /\ Apply(o.st)
         /\ SetReq(r, [reqs[r] EXCEPT !.pc = "done",
                         !.status = IF o.found THEN 200 ELSE ReraiseExcept("HTTP404")])
         /\ rowWriter' = IF o.found THEN r ELSE rowWriter
  /\ UNCHANGED <<cols, resp, pre>>

\* A product with an image whose file is there, or a product without one: both
\* are states create_product leaves.
InitRace ==
  /\ cols = SchemaFields
  /\ \E d \in Payloads, hasImage \in BOOLEAN :
       /\ table = [EmptyTable EXCEPT ![1] = RowOf(d, IF hasImage THEN UrlOf(OldFile) ELSE NoImage)]
       /\ files = IF hasImage THEN {OldFile} ELSE {}
  /\ uuidCtr = 0
  /\ resp = NoResp
  /\ pre = Stores
  /\ reqs = [r \in Requests |-> IdleReq]
  /\ rowWriter = 0

NextRace ==
  \E r \in Requests :
    UpdBegin(r) \/ UpdGet(r) \/ UpdExists(r) \/ UpdRemove(r) \/ UpdSave(r) \/ UpdWrite(r)

SpecRace == InitRace /\ [][NextRace]_vars

BothDone == \A r \in Requests : reqs[r].pc = "done"

ValidUpload(up) == HasFile(up) /\ ValidateImage(up) = "ok"

\* The upload is a file whose declared content type does not start with
\* "image/" or whose declared size is over 5,242,880 bytes.
RejectedUpload(up) ==
  /\ HasFile(up)
  /\ up.content_type # <<>>
  /\ ~StartsWithImage(up.content_type) \/ up.size > MaxImageSize

\* The row the last request named, before and after it.
RowBefore == GetProduct(pre.table, resp.id)
RowAfter == GetProduct(table, resp.id)

Unchanged == table = pre.table /\ files = pre.files

\* C1: a create request for any product, with or without an image, succeeds
\* with an assigned id, and a get of that id returns the product's name,
\* description, price and image.
C1_CreateThenGet ==
  (resp.op = "create" /\ resp.fail = "none"
     /\ (~HasFile(resp.upload) \/ ValidUpload(resp.upload)))
  => /\ resp.status = 200
     /\ resp.id \in Ids
     /\ ReadHandler(Stores, resp.id).status = 200
     /\ RowAfter.name = resp.data.name
     /\ RowAfter.description = OrEmpty(resp.data.description)
     /\ RowAfter.price = resp.data.price
     /\ IF HasFile(resp.upload)
        THEN Truthy(RowAfter.image) /\ PathOf(RowAfter.image) \in files \ pre.files
        ELSE RowAfter.image = NoImage

C4_RejectedUploadChangesNothing ==
  (resp.op \in {"create", "update"} /\ RejectedUpload(resp.upload))
  => resp.status # 200 /\ Unchanged

C4_Witness ==
  /\ resp.op = "update" /\ RejectedUpload(resp.upload)
  /\ RowBefore.live /\ Truthy(RowBefore.image) /\ PathOf(RowBefore.image) \in files
  /\ resp.status = 400

\* C5: the create handler and the update handler both answer a non-image or
\* oversized uploaded file with status 400.
C5_BadUploadIs400 ==
  (RejectedUpload(resp.upload)
     /\ (resp.op = "create" \/ (resp.op = "update" /\ RowBefore.live)))
  => resp.status = 400

C8_DeleteSucceeds ==
  (resp.op = "delete" /\ RowBefore.live /\ resp.fail = "none")
  => /\ resp.status = 200
     /\ ReadHandler(Stores, resp.id).status = 404
     /\ Truthy(RowBefore.image) => PathOf(RowBefore.image) \notin files

\* C9: an update or delete request on an id without a row answers 404 and
\* leaves the uploads directory and the table as they were, for update also
\* when a valid image comes with it.
C9_MissingIdChangesNothing ==
  (resp.op \in {"update", "delete"} /\ ~RowBefore.live)
  => /\ Unchanged
     /\ resp.fail = "none" => resp.status = 404

C9_Witness ==
  /\ resp.op = "update" /\ ~RowBefore.live /\ ValidUpload(resp.upload)
  /\ resp.status = 404
  /\ files # {}


====
